---------------------------- MODULE Spec2Model ----------------------------
(***************************************************************************)
(* Timeline / caption assembly engine of autoclips                         *)
(* (src/src/media/assembler.py, src/src/media/captions.py,                 *)
(* src/src/core/project.py).                                               *)
(*                                                                         *)
(* Times are Python floats in the source.  They are modelled as exact      *)
(* rationals <<numerator, denominator>> in lowest terms, so an equality    *)
(* between times below is an equality of the real numbers the floats       *)
(* approximate.  Strings are sequences of one-character strings.           *)
(***************************************************************************)
EXTENDS Integers, Sequences, FiniteSets, TLC

VARIABLES
    \* ---- project state and TimelineBuilder ----
    footage_clips,     \* ProjectState.footage_clips
    state_timeline,    \* ProjectState.timeline
    timeline_file,     \* timeline.json
    build,             \* the most recent _build_video_track call: inputs and result
    \* ---- caption timing (assemble_video lines 80-86, render_captions) ----
    cap_pc,            \* position inside the caption part of assemble_video
    sidecar,           \* voiceover.timestamps.json
    script,            \* Project.get_script(): None or text
    total_duration,    \* voiceover.duration
    cap_cfg,           \* settings.captions: enabled, style
    word_timestamps,   \* the local word_timestamps of assemble_video
    ts_source,         \* which branch produced word_timestamps
    text_clip_raises,  \* indices of the TextClip constructions that raised
    caption_units,     \* the text clips composited over the video
    \* ---- _preprocess_timestamps on one token list ----
    pp_in,             \* argument
    pp_out,            \* result of the call
    \* ---- _group_into_sentences ----
    grp_in,            \* argument word_timestamps
    grp_max,           \* argument max_words
    grp_out,           \* result of the call
    \* ---- _wrap_text_by_words ----
    wrap_in,           \* arguments [text, font_size, max_width]
    wrap_out,          \* result of the call
    \* ---- AudioMixer: _build_audio_track and _get_music_track ----
    music_settings,    \* settings.music: enabled
    music_state,       \* ProjectState.music_track, ProjectState.music_mood
    music_base,        \* the directory assets/music
    music_file,        \* what the music files hold: duration, fault on use
    mix_duration,      \* argument duration (voiceover.duration)
    audio_runs,        \* the _build_audio_track calls made so far, in order
    \* ---- RenderPipeline: render_preview, render_final, _check_nvidia_gpu ----
    gpu_available,     \* the module global _gpu_available
    voiceover_exists,  \* project.voiceover_path.exists()
    requests,          \* per render request: tier, position, locals
    probe_log,         \* history of the probe: checks run, values returned
    encodes,           \* number of write_videofile invocations so far
    \* ---- _resize_and_crop ----
    crop_in,           \* arguments [w, h, target_width, target_height]
    crop_out,          \* result of the call
    \* ---- generate_voiceover: word timestamps from the alignment ----
    voice_in,          \* response.alignment
    voice_out          \* the word_timestamps written to the sidecar

tlVars   == <<footage_clips, state_timeline, timeline_file, build>>
capVars  == <<cap_pc, sidecar, script, total_duration, cap_cfg, word_timestamps,
              ts_source, text_clip_raises, caption_units>>
ppVars   == <<pp_in, pp_out>>
grpVars  == <<grp_in, grp_max, grp_out>>
wrapVars == <<wrap_in, wrap_out>>
audVars  == <<music_settings, music_state, music_base, music_file,
              mix_duration, audio_runs>>
rndVars  == <<gpu_available, voiceover_exists, requests, probe_log, encodes>>
cropVars == <<crop_in, crop_out>>
voiceVars == <<voice_in, voice_out>>
vars     == <<tlVars, capVars, ppVars, grpVars, wrapVars, audVars, rndVars,
              cropVars, voiceVars>>

\* Python's None where a string may stand.
None == <<"None">>

\* A file that may exist: its parsed contents, or no file.
NoFile     == [exists |-> FALSE]
File(data) == [exists |-> TRUE, data |-> data]

\* The result slot of a function call: empty before the call.
NotCalled   == [returned |-> FALSE]
Returned(v) == [returned |-> TRUE, value |-> v]

(***************************************************************************)
(* Exact rational arithmetic for the float-valued times.                   *)
(***************************************************************************)
Abs(x) == IF x < 0 THEN -x ELSE x

RECURSIVE GCD(_, _)
GCD(a, b) == IF b = 0 THEN a ELSE GCD(b, a % b)

Rat(n, d) ==
    LET s == IF d < 0 THEN -1 ELSE 1
        g == GCD(Abs(n), Abs(d))
    IN  <<(s * n) \div g, (s * d) \div g>>

R(i)        == <<i, 1>>
RAdd(x, y)  == Rat(x[1] * y[2] + y[1] * x[2], x[2] * y[2])
RSub(x, y)  == Rat(x[1] * y[2] - y[1] * x[2], x[2] * y[2])
RMul(x, y)  == Rat(x[1] * y[1], x[2] * y[2])
RDiv(x, y)  == Rat(x[1] * y[2], x[2] * y[1])
RLe(x, y)   == x[1] * y[2] <= y[1] * x[2]
RLt(x, y)   == x[1] * y[2] < y[1] * x[2]
RMin(x, y)  == IF RLe(x, y) THEN x ELSE y

(***************************************************************************)
(* Small sequence helpers.                                                 *)
(***************************************************************************)
SeqsUpTo(S, n) == UNION {[1..k -> S] : k \in 0..n}

Last(s) == s[Len(s)]

RECURSIVE SumLen(_)
SumLen(ss) == IF ss = <<>> THEN 0 ELSE Len(Head(ss)) + SumLen(Tail(ss))

RECURSIVE Concat(_)
Concat(ss) == IF ss = <<>> THEN <<>> ELSE Head(ss) \o Concat(Tail(ss))


(***************************************************************************)
(* Project state: footage list and persisted timeline                      *)
(* (src/src/core/project.py).                                              *)
(***************************************************************************)
MaxClips == 3

\* Narration durations (voiceover.duration), in seconds.
Durations == {1, 2}

\* str.lower() on the characters keywords are made of.
LowerChar(c) ==
    CASE c = "C" -> "c"
      [] c = "A" -> "a"
      [] c = "T" -> "t"
      [] OTHER   -> c

Lower(s) == [i \in 1..Len(s) |-> LowerChar(s[i])]

\* Python's `needle in hay` on strings.
IsSubstring(needle, hay) ==
    \E i \in 0..(Len(hay) - Len(needle)) :
        \A j \in 1..Len(needle) : hay[i + j] = needle[j]

\* FootageClip records the operator can add (filename, keyword; the other
\* fields are not read by the assembler).
Catalogue ==
    { [filename |-> "a.mp4", keyword |-> <<"c", "a", "t">>],
      [filename |-> "b.mp4", keyword |-> <<"C", "a", "t", "s">>] }

Filenames == {c.filename : c \in Catalogue}

\* Arguments remove_footage is called with.  An argument left out defaults
\* to None, which the code tests like the empty string: by truthiness.
RemoveFilenames == Filenames \cup {""}
RemoveKeywords  == {<<>>, <<"C", "A", "T">>, <<"c", "a", "t", "s">>}

\* What the footage directory holds for a filename at assembly time:
\* a loadable file, no file, or a file whose load/resize/loop raises.
FileStatus == {"ok", "missing", "corrupt"}

\* Project.add_footage
add_footage(clips, clip) == Append(clips, clip)

\* The per-clip test of Project.remove_footage
should_remove(clip, filename, keyword) ==
    IF filename # "" /\ clip.filename = filename THEN TRUE
    ELSE keyword # <<>> /\ IsSubstring(Lower(keyword), Lower(clip.keyword))

\* Project.remove_footage: the new clip list
remove_footage(clips, filename, keyword) ==
    SelectSeq(clips, LAMBDA c : ~should_remove(c, filename, keyword))

\* Project.get_timeline: the file when it exists, else the state's list.
\* json.dump / json.load of the entries returns the same strings and floats.
get_timeline ==
    IF timeline_file.exists THEN timeline_file.data ELSE state_timeline

(***************************************************************************)
(* TimelineBuilder: _build_video_track (src/src/media/assembler.py).       *)
(***************************************************************************)
TimelineEntry(clip_filename, start, end, keyword) ==
    [clip_filename |-> clip_filename, start |-> start, end |-> end,
     keyword |-> keyword]

\* A faulty variant of ClipEnd: every clip plays to the end of the video.
ClipEndAtDuration(current_time, clip_duration, duration) == duration

\* clip_end = min(current_time + clip_duration, duration)
ClipEnd(current_time, clip_duration, duration) ==
    RMin(RAdd(current_time, clip_duration), duration)

\* A faulty variant of ClipLoads: a clip whose load raises is still recorded.
ClipLoadsIfPresent(status) == status # "missing"

\* The clip reaches video_clips.append / timeline.append: its file exists
\* and nothing in the try block raised.
ClipLoads(status) == status = "ok"

\* A faulty variant of BuildStep: every clip owns a fixed slot, so a skipped clip
\* still advances the running offset.
BuildStepFixedSlots(acc, footage, status, clip_duration, duration) ==
    LET clip_end == ClipEnd(acc.current_time, clip_duration, duration) IN
    IF ~ClipLoads(status)
    THEN [acc EXCEPT !.current_time = clip_end]
    ELSE [timeline     |-> Append(acc.timeline,
                             TimelineEntry(footage.filename, acc.current_time,
                                           clip_end, footage.keyword)),
          current_time |-> clip_end,
          video_clips  |-> Append(acc.video_clips,
                             [start |-> acc.current_time,
                              duration |-> RSub(clip_end, acc.current_time)])]

\* One iteration of the loop over footage_clips.
\* acc = [timeline, current_time, video_clips]
BuildStep(acc, footage, status, clip_duration, duration) ==
    IF status = "missing" THEN acc                  \* not clip_path.exists()
    ELSE IF ~ClipLoads(status) THEN acc             \* except Exception: continue
    ELSE
        LET clip_end        == ClipEnd(acc.current_time, clip_duration, duration)
            actual_duration == RSub(clip_end, acc.current_time)
        IN  [timeline     |-> Append(acc.timeline,
                                 TimelineEntry(footage.filename, acc.current_time,
                                               clip_end, footage.keyword)),
             current_time |-> clip_end,
             video_clips  |-> Append(acc.video_clips,
                                 [start |-> acc.current_time,
                                  duration |-> actual_duration])]

RECURSIVE BuildLoop(_, _, _, _, _)
BuildLoop(acc, clips, fs, clip_duration, duration) ==
    IF clips = <<>> THEN acc
    ELSE BuildLoop(BuildStep(acc, Head(clips), fs[Head(clips).filename],
                             clip_duration, duration),
                   Tail(clips), fs, clip_duration, duration)

\* The locals of _build_video_track after its loop, for a non-empty list.
BuildLocals(clips, fs, duration) ==
    BuildLoop([timeline |-> <<>>, current_time |-> R(0), video_clips |-> <<>>],
              clips, fs, RDiv(duration, R(Len(clips))), duration)

\* ColorClip(size, color=(0,0,0), duration=duration)
ColorClip(duration) == [kind |-> "filler", duration |-> duration]

\* Project.set_timeline writes the state's list and timeline.json together.
\* _build_video_track as a whole, on footage list footage_clips: what it
\* does to the project and what it returns.
build_video_track(d, fs) ==
    LET duration == R(d) IN
    IF footage_clips = <<>>
    THEN \* early return: the filler track, and no set_timeline call
         /\ build' = [called |-> TRUE, clips |-> footage_clips, fs |-> fs,
                      duration |-> duration, persisted |-> FALSE,
                      returned |-> ColorClip(duration)]
         /\ UNCHANGED <<footage_clips, state_timeline, timeline_file>>
    ELSE LET loc == BuildLocals(footage_clips, fs, duration) IN
         /\ state_timeline' = loc.timeline
         /\ timeline_file'  = File(loc.timeline)
         /\ build' = [called |-> TRUE, clips |-> footage_clips, fs |-> fs,
                      duration |-> duration, persisted |-> TRUE,
                      returned |-> IF loc.video_clips = <<>>
                                   THEN ColorClip(duration)
                                   ELSE [kind |-> "composite",
                                         clips |-> loc.video_clips]]
         /\ UNCHANGED footage_clips

BuildVideoTrack(d, fs) ==
    /\ build_video_track(d, fs)
    /\ UNCHANGED <<capVars, ppVars, grpVars, wrapVars, audVars, rndVars, cropVars,
                   voiceVars>>

AddFootage(clip) ==
    /\ Len(footage_clips) < MaxClips
    /\ footage_clips' = add_footage(footage_clips, clip)
    /\ UNCHANGED <<state_timeline, timeline_file, build>>
    /\ UNCHANGED <<capVars, ppVars, grpVars, wrapVars, audVars, rndVars, cropVars,
                   voiceVars>>

RemoveFootage(filename, keyword) ==
    /\ footage_clips' = remove_footage(footage_clips, filename, keyword)
    /\ UNCHANGED <<state_timeline, timeline_file, build>>
    /\ UNCHANGED <<capVars, ppVars, grpVars, wrapVars, audVars, rndVars, cropVars,
                   voiceVars>>

TimelineInit ==
    /\ footage_clips = <<>>
    /\ state_timeline = <<>>
    /\ timeline_file = NoFile
    /\ build = [called |-> FALSE]


(***************************************************************************)
(* Python string operations used by captions.py, on character sequences.   *)
(***************************************************************************)
NL == "\n"

IsSpace(c)   == c \in {" ", NL}
IsPunct(c)   == c \in {".", "!", "?"}
IsCapital(c) == c \in {"A", "B"}

\* s[a..b], empty when a > b
Slice(s, a, b) == IF a > b THEN <<>> ELSE SubSeq(s, a, b)

RECURSIVE LStrip(_)
LStrip(s) == IF s # <<>> /\ IsSpace(Head(s)) THEN LStrip(Tail(s)) ELSE s

RECURSIVE RStrip(_)
RStrip(s) ==
    IF s # <<>> /\ IsSpace(s[Len(s)]) THEN RStrip(SubSeq(s, 1, Len(s) - 1)) ELSE s

\* str.strip()
Strip(s) == RStrip(LStrip(s))

\* re.sub(r"\s+", " ", s): every run of whitespace becomes one space
RECURSIVE CollapseSpaces(_)
CollapseSpaces(s) ==
    IF s = <<>> THEN <<>>
    ELSE IF IsSpace(Head(s)) THEN <<" ">> \o CollapseSpaces(LStrip(s))
    ELSE <<Head(s)>> \o CollapseSpaces(Tail(s))

\* str.split(): the maximal runs of non-whitespace characters, in order
RECURSIVE SplitWords(_, _)
SplitWords(s, cur) ==
    IF s = <<>> THEN (IF cur = <<>> THEN <<>> ELSE <<cur>>)
    ELSE IF IsSpace(Head(s))
         THEN (IF cur = <<>> THEN <<>> ELSE <<cur>>) \o SplitWords(Tail(s), <<>>)
         ELSE SplitWords(Tail(s), Append(cur, Head(s)))

\* "\n\n" in s
HasParagraphBreak(s) ==
    \E i \in 1..(Len(s) - 1) : s[i] = NL /\ s[i + 1] = NL

\* s.split("\n\n"): pieces between the non-overlapping breaks, left to right
RECURSIVE SplitParagraphs(_, _)
SplitParagraphs(s, cur) ==
    IF s = <<>> THEN <<cur>>
    ELSE IF Len(s) >= 2 /\ s[1] = NL /\ s[2] = NL
         THEN <<cur>> \o SplitParagraphs(SubSeq(s, 3, Len(s)), <<>>)
         ELSE SplitParagraphs(Tail(s), Append(cur, Head(s)))

\* s.replace("\n", " ")
ReplaceNewlines(s) == [i \in 1..Len(s) |-> IF s[i] = NL THEN " " ELSE s[i]]

\* sep.join(parts)
RECURSIVE Join(_, _)
Join(parts, sep) ==
    IF parts = <<>> THEN <<>>
    ELSE IF Len(parts) = 1 THEN parts[1]
    ELSE parts[1] \o sep \o Join(Tail(parts), sep)

\* word.endswith((".", "!", "?"))
EndsSentence(word) == word # <<>> /\ IsPunct(word[Len(word)])

\* The end of the text `$` accepts: the end of the string, or the position
\* before one final newline.
MatchEnd(word) ==
    IF word # <<>> /\ word[Len(word)] = NL THEN Len(word) - 1 ELSE Len(word)

\* Positions i at which ^(.+[.!?])([A-Z].*)$ can split: word[i] is the
\* punctuation closing group 1, word[i+1] the capital opening group 2, and
\* `.` matches no newline.
SplitPoints(word) ==
    { i \in 2..(Len(word) - 1) :
        /\ IsPunct(word[i])
        /\ IsCapital(word[i + 1])
        /\ \A j \in 1..MatchEnd(word) : word[j] # NL }

\* re.match(r'^(.+[.!?])([A-Z].*)$', word).groups(), or None.  `.+` is
\* greedy: of the possible split points the last one is taken.
SentenceMatch(word) ==
    IF SplitPoints(word) = {} THEN None
    ELSE LET i == CHOOSE k \in SplitPoints(word) :
                      \A m \in SplitPoints(word) : m <= k
         IN  <<SubSeq(word, 1, i), Slice(word, i + 1, MatchEnd(word))>>

(***************************************************************************)
(* TextLayoutEngine: _estimate_text_width and _wrap_text_by_words.         *)
(***************************************************************************)
\* int(len(text) * (font_size * 0.6)): the product truncated to an integer.
\* The float product equals floor(3 * font_size * len / 5) for the font
\* sizes used here.
estimate_text_width(text, font_size) == (Len(text) * font_size * 3) \div 5

\* A faulty variant of WrapStep: the word that overflows the line is lost
\* when the new line is started.
WrapStepDropsWord(st, word, font_size, max_width) ==
    LET space_width == estimate_text_width(<<" ">>, font_size)
        word_width  == estimate_text_width(word, font_size)
        new_width   == IF st.current_line # <<>>
                       THEN st.current_width + space_width + word_width
                       ELSE word_width
    IN  IF new_width <= max_width \/ st.current_line = <<>>
        THEN [lines         |-> st.lines,
              current_line  |-> Append(st.current_line, word),
              current_width |-> new_width]
        ELSE [lines         |-> Append(st.lines, Join(st.current_line, <<" ">>)),
              current_line  |-> <<>>,
              current_width |-> 0]

\* One iteration of the loop over words.
\* st = [lines, current_line, current_width]
WrapStep(st, word, font_size, max_width) ==
    LET space_width == estimate_text_width(<<" ">>, font_size)
        word_width  == estimate_text_width(word, font_size)
        new_width   == IF st.current_line # <<>>
                       THEN st.current_width + space_width + word_width
                       ELSE word_width
    IN  IF new_width <= max_width \/ st.current_line = <<>>
        THEN [lines         |-> st.lines,
              current_line  |-> Append(st.current_line, word),
              current_width |-> new_width]
        ELSE [lines         |-> Append(st.lines, Join(st.current_line, <<" ">>)),
              current_line  |-> <<word>>,
              current_width |-> word_width]

RECURSIVE WrapLoop(_, _, _, _)
WrapLoop(st, words, font_size, max_width) ==
    IF words = <<>> THEN st
    ELSE WrapLoop(WrapStep(st, Head(words), font_size, max_width),
                  Tail(words), font_size, max_width)

\* The list `lines` of _wrap_text_by_words before the final join.
WrapLines(text, font_size, max_width) ==
    LET st == WrapLoop([lines |-> <<>>, current_line |-> <<>>, current_width |-> 0],
                       SplitWords(text, <<>>), font_size, max_width)
    IN  IF st.current_line # <<>>
        THEN Append(st.lines, Join(st.current_line, <<" ">>))
        ELSE st.lines

wrap_text_by_words(text, font_size, max_width) ==
    IF SplitWords(text, <<>>) = <<>> THEN text
    ELSE Join(WrapLines(text, font_size, max_width), <<NL>>)

(***************************************************************************)
(* CaptionTimingEngine (src/src/media/captions.py).                        *)
(***************************************************************************)
WordTimestamp(word, start, end) == [word |-> word, start |-> start, end |-> end]

\* load_word_timestamps: the sidecar's list, or [] when there is no file.
load_word_timestamps(file) == IF file.exists THEN file.data ELSE <<>>

\* A faulty variant of clean_and_split: a text without a word yields one
\* empty word, as text.split(" ") without the final filter would.
clean_and_split_keeps_empty(text) ==
    IF Strip(text) = <<>> THEN << <<>> >>
    ELSE SplitWords(CollapseSpaces(Strip(text)), <<>>)

\* _clean_and_split
clean_and_split(text) ==
    SelectSeq(SplitWords(CollapseSpaces(Strip(text)), <<>>), LAMBDA w : w # <<>>)

RECURSIVE TimestampLoop(_, _, _)
TimestampLoop(words, current_time, time_per_word) ==
    IF words = <<>> THEN <<>>
    ELSE <<WordTimestamp(Head(words), current_time,
                         RAdd(current_time, time_per_word))>>
         \o TimestampLoop(Tail(words), RAdd(current_time, time_per_word),
                          time_per_word)

\* A faulty variant of TimePerWord: the duration is shared out per character.
TimePerCharacter(audio_duration, words) ==
    RDiv(audio_duration, R(SumLen(words)))

\* time_per_word = audio_duration / len(words)
TimePerWord(audio_duration, words) == RDiv(audio_duration, R(Len(words)))

\* generate_word_timestamps: equal time per word
generate_word_timestamps(text, audio_duration) ==
    LET words == clean_and_split(text) IN
    IF words = <<>> THEN <<>>
    ELSE TimestampLoop(words, R(0), TimePerWord(audio_duration, words))

\* The non-empty stripped parts of a token around its paragraph breaks.
ParagraphParts(word) ==
    SelectSeq([i \in 1..Len(SplitParagraphs(word, <<>>)) |->
                   Strip(SplitParagraphs(word, <<>>)[i])],
              LAMBDA part : part # <<>>)

\* A faulty variant of PartDuration: every part gets an equal share.
PartDurationEqualShares(part, parts, duration) ==
    RDiv(duration, R(Len(parts)))

\* part_duration of one part of a paragraph-split token
PartDuration(part, parts, duration) ==
    IF SumLen(parts) > 0
    THEN RMul(duration, Rat(Len(part), SumLen(parts)))
    ELSE RDiv(duration, R(Len(parts)))

\* The entries appended for the parts of one token, from current_time on.
RECURSIVE ParagraphEntries(_, _, _, _)
ParagraphEntries(rest, parts, current_time, duration) ==
    IF rest = <<>> THEN <<>>
    ELSE LET part_duration == PartDuration(Head(rest), parts, duration) IN
         <<WordTimestamp(Head(rest), current_time,
                         RAdd(current_time, part_duration))>>
         \o ParagraphEntries(Tail(rest), parts,
                             RAdd(current_time, part_duration), duration)

\* A faulty variant of SentenceEntries: the interval is cut in the middle.
SentenceEntriesEqualHalves(ts, groups) ==
    LET duration       == RSub(ts.end, ts.start)
        part1_duration == RDiv(duration, R(2))
    IN  <<WordTimestamp(groups[1], ts.start, RAdd(ts.start, part1_duration)),
          WordTimestamp(groups[2], RAdd(ts.start, part1_duration), ts.end)>>

\* The entries appended for a token matching the sentence pattern.
SentenceEntries(ts, groups) ==
    LET part1          == groups[1]
        part2          == groups[2]
        duration       == RSub(ts.end, ts.start)
        total_chars    == Len(part1) + Len(part2)
        part1_duration == RMul(duration, Rat(Len(part1), total_chars))
    IN  <<WordTimestamp(part1, ts.start, RAdd(ts.start, part1_duration)),
          WordTimestamp(part2, RAdd(ts.start, part1_duration), ts.end)>>

\* The entries one iteration of _preprocess_timestamps appends for token ts.
PreprocessToken(ts) ==
    LET word     == ts.word
        duration == RSub(ts.end, ts.start)
        parts    == ParagraphParts(word)
    IN  IF HasParagraphBreak(word) /\ Len(parts) > 1
        THEN ParagraphEntries(parts, parts, ts.start, duration)
        ELSE IF SentenceMatch(word) # None
        THEN SentenceEntries(ts, SentenceMatch(word))
        ELSE LET clean_word == Strip(ReplaceNewlines(word)) IN
             IF clean_word # <<>>
             THEN <<WordTimestamp(clean_word, ts.start, ts.end)>>
             ELSE <<>>

RECURSIVE preprocess_timestamps(_)
preprocess_timestamps(tss) ==
    IF tss = <<>> THEN <<>>
    ELSE PreprocessToken(Head(tss)) \o preprocess_timestamps(Tail(tss))

\* The default of _group_into_sentences' max_words parameter.
DefaultMaxWords == 4

\* A faulty variant of GroupStep: the cap is tested with > instead of >=.
GroupStepOverCap(st, ts, max_words) ==
    LET current_sentence == Append(st.current_sentence, ts) IN
    IF EndsSentence(ts.word) \/ Len(current_sentence) > max_words
    THEN [sentences |-> Append(st.sentences, current_sentence),
          current_sentence |-> <<>>]
    ELSE [sentences |-> st.sentences, current_sentence |-> current_sentence]

\* A faulty variant of GroupStep: only the cap closes a group.
GroupStepCapOnly(st, ts, max_words) ==
    LET current_sentence == Append(st.current_sentence, ts) IN
    IF Len(current_sentence) >= max_words
    THEN [sentences |-> Append(st.sentences, current_sentence),
          current_sentence |-> <<>>]
    ELSE [sentences |-> st.sentences, current_sentence |-> current_sentence]

\* One iteration of _group_into_sentences.
\* st = [sentences, current_sentence]
GroupStep(st, ts, max_words) ==
    LET current_sentence == Append(st.current_sentence, ts) IN
    IF EndsSentence(ts.word) \/ Len(current_sentence) >= max_words
    THEN [sentences |-> Append(st.sentences, current_sentence),
          current_sentence |-> <<>>]
    ELSE [sentences |-> st.sentences, current_sentence |-> current_sentence]

RECURSIVE GroupLoop(_, _, _)
GroupLoop(st, tss, max_words) ==
    IF tss = <<>> THEN st
    ELSE GroupLoop(GroupStep(st, Head(tss), max_words), Tail(tss), max_words)

group_into_sentences(tss, max_words) ==
    LET st == GroupLoop([sentences |-> <<>>, current_sentence |-> <<>>],
                        tss, max_words)
    IN  IF st.current_sentence # <<>>
        THEN Append(st.sentences, st.current_sentence)
        ELSE st.sentences

\* settings.captions and settings.video values read by the renderers
CaptionFontSize    == 60
CaptionStrokeWidth == 3
VideoWidth         == 1080
HorizontalMargin   == 300

\* A TextClip placed on the video: its text, start and duration.
TextClip(text, start, duration) ==
    [text |-> text, start |-> start, duration |-> duration]

\* A faulty variant of WordCandidates: a token of duration 0 is kept.
WordCandidatesKeepZero(tss) ==
    [i \in 1..Len(tss) |->
        LET duration == RSub(tss[i].end, tss[i].start) IN
        IF RLt(duration, R(0)) THEN <<>>
        ELSE <<TextClip(tss[i].word, tss[i].start, duration)>>]

\* The clips _render_word_by_word would make, one per token, before the
\* duration test and the TextClip call: <<clip>>, or <<>> for a token that
\* is skipped.
WordCandidates(tss) ==
    [i \in 1..Len(tss) |->
        LET duration == RSub(tss[i].end, tss[i].start) IN
        IF RLe(duration, R(0)) THEN <<>>
        ELSE <<TextClip(tss[i].word, tss[i].start, duration)>>]

\* A faulty variant of SentenceSpan: the group ends with its first word.
SentenceSpanFirstWord(sentence) ==
    [start |-> sentence[1].start, end |-> sentence[1].end]

\* start = sentence[0]["start"]; end = sentence[-1]["end"]
SentenceSpan(sentence) ==
    [start |-> sentence[1].start, end |-> sentence[Len(sentence)].end]

\* The same for _render_sentence, one per group.
SentenceCandidates(tss) ==
    LET sentences  == group_into_sentences(tss, DefaultMaxWords)
        text_width == VideoWidth - HorizontalMargin
        wrap_width == text_width - CaptionStrokeWidth * 6
    IN  [i \in 1..Len(sentences) |->
            LET sentence == sentences[i]
                text     == Join([k \in 1..Len(sentence) |-> sentence[k].word],
                                 <<" ">>)
                start    == SentenceSpan(sentence).start
                end      == SentenceSpan(sentence).end
                duration == RSub(end, start)
            IN  IF RLe(duration, R(0)) THEN <<>>
                ELSE <<TextClip(wrap_text_by_words(text, CaptionFontSize,
                                                   wrap_width),
                                start, duration)>>]

\* text_clips of a renderer: the candidates that have a positive duration
\* and whose TextClip construction did not raise (raises: the indices that do).
RenderedClips(candidates, raises) ==
    LET F[i \in 0..Len(candidates)] ==
            IF i = 0 THEN <<>>
            ELSE IF i \in raises THEN F[i - 1]
            ELSE F[i - 1] \o candidates[i]
    IN  F[Len(candidates)]

\* The candidates render_captions hands to TextClip: none when captions are
\* disabled or there are no timestamps, else those of the configured style
\* over the preprocessed timestamps.
CaptionCandidates(cfg, tss) ==
    IF ~cfg.enabled \/ tss = <<>> THEN <<>>
    ELSE IF cfg.style = "word_by_word"
         THEN WordCandidates(preprocess_timestamps(tss))
         ELSE SentenceCandidates(preprocess_timestamps(tss))

\* render_captions: the text clips composited over the video.
render_captions(cfg, tss, raises) ==
    RenderedClips(CaptionCandidates(cfg, tss), raises)

(***************************************************************************)
(* AudioMixer: _get_music_track and _build_audio_track.                    *)
(***************************************************************************)
\* settings.music: fade_in and fade_out defaults
MusicFadeIn  == 1
MusicFadeOut == 2

\* int(x) of a non-negative float
IntTrunc(r) == r[1] \div r[2]

\* The custom tracks that exist on disk; any other custom path is missing.
TrackFiles == {"t.mp3"}

\* project.state.music_mood or "calm"
Mood(state) == IF state.music_mood = "" THEN "calm" ELSE state.music_mood

\* A directory under assets/music: its name and the *.mp3 and *.wav in it.
MusicDir(name, files) == [name |-> name, files |-> files]

\* The directory the tracks are taken from: assets/music/<mood> when it
\* exists, else the first directory of assets/music, else none (<<>>).
\* The result is a sequence holding the directory, or the empty sequence.
music_dir(state, base) ==
    IF ~base.exists THEN <<>>
    ELSE LET named == { i \in 1..Len(base.data) : base.data[i].name = Mood(state) }
         IN  IF named # {} THEN <<base.data[CHOOSE i \in named : TRUE]>>
             ELSE IF base.data # <<>> THEN <<base.data[1]>>
             ELSE <<>>

\* The values _get_music_track can return; "" stands for None.  With
\* several files in the directory random.choice may return any of them.
get_music_track(state, base) ==
    IF state.music_track # "" /\ state.music_track \in TrackFiles
    THEN {state.music_track}
    ELSE LET dir == music_dir(state, base) IN
         IF dir = <<>> THEN {""}
         ELSE IF dir[1].files = {} THEN {""}
         ELSE dir[1].files

\* The narration clip as passed in.
VoiceoverClip(duration) ==
    [kind |-> "voiceover", path |-> "voiceover.mp3", duration |-> duration,
     looped |-> duration, effects |-> <<>>]

\* A faulty variant of LoopsNeeded: the number of whole repetitions only.
LoopsWhole(duration, music_duration) ==
    IntTrunc(RDiv(duration, music_duration))

\* loops = int(duration / music.duration) + 1
LoopsNeeded(duration, music_duration) ==
    IntTrunc(RDiv(duration, music_duration)) + 1

\* The effects applied to the trimmed music.
MusicEffects ==
    <<"MultiplyVolume">>
        \o (IF MusicFadeIn > 0 THEN <<"AudioFadeIn">> ELSE <<>>)
        \o (IF MusicFadeOut > 0 THEN <<"AudioFadeOut">> ELSE <<>>)

\* A faulty variant of MusicClips: the clip is appended as soon as it is
\* loaded, so a failure while looping, trimming or applying effects leaves
\* the untrimmed music in audio_clips.
MusicClipsAppendEarly(path, file, duration) ==
    IF file.fault = "load" THEN <<>>
    ELSE IF file.fault = "effects"
    THEN <<[kind |-> "music", path |-> path, duration |-> file.duration,
            looped |-> file.duration, effects |-> <<>>]>>
    ELSE <<[kind |-> "music", path |-> path, duration |-> duration,
            looped |-> IF RLt(file.duration, duration)
                       THEN RMul(R(LoopsNeeded(duration, file.duration)), file.duration)
                       ELSE file.duration,
            effects |-> MusicEffects]>>

\* The body of the try block: the music clip appended to audio_clips, or
\* nothing when an exception is caught.  `looped` is the length of the
\* music before subclipped(0, duration).
MusicClips(path, file, duration) ==
    LET looped == IF RLt(file.duration, duration)
                  THEN RMul(R(LoopsNeeded(duration, file.duration)), file.duration)
                  ELSE file.duration
    IN  IF file.fault # "none" THEN <<>>
        ELSE <<[kind |-> "music", path |-> path, duration |-> duration,
                looped |-> looped, effects |-> MusicEffects]>>

\* CompositeAudioClip(audio_clips): its clips and its duration, the latest
\* end of a clip.
CompositeAudioClip(audio_clips) ==
    [clips    |-> audio_clips,
     duration |-> LET i == CHOOSE k \in 1..Len(audio_clips) :
                              \A m \in 1..Len(audio_clips) :
                                  RLe(audio_clips[m].duration, audio_clips[k].duration)
                  IN  audio_clips[i].duration]

\* _build_audio_track, given what _get_music_track returned and whether
\* that path exists when it is tested.
build_audio_track(settings, music_path, path_exists, file, duration) ==
    LET voiceover == VoiceoverClip(duration) IN
    IF settings.enabled /\ music_path # "" /\ path_exists
    THEN CompositeAudioClip(<<voiceover>> \o MusicClips(music_path, file, duration))
    ELSE CompositeAudioClip(<<voiceover>>)

(***************************************************************************)
(* Idle values of each component, for the specifications that do not       *)
(* exercise it.                                                            *)
(***************************************************************************)
TimelineIdle ==
    /\ footage_clips = <<>>
    /\ state_timeline = <<>>
    /\ timeline_file = NoFile
    /\ build = [called |-> FALSE]

CaptionIdle ==
    /\ cap_pc = "idle"
    /\ sidecar = NoFile
    /\ script = None
    /\ total_duration = R(1)
    /\ cap_cfg = [enabled |-> TRUE, style |-> "sentence"]
    /\ word_timestamps = <<>>
    /\ ts_source = "none"
    /\ text_clip_raises = {}
    /\ caption_units = <<>>

PreprocessIdle == pp_in = <<>> /\ pp_out = NotCalled

GroupIdle == grp_in = <<>> /\ grp_max = DefaultMaxWords /\ grp_out = NotCalled

WrapIdle ==
    /\ wrap_in = [text |-> <<>>, font_size |-> 1, max_width |-> 0]
    /\ wrap_out = NotCalled

AudioIdle ==
    /\ music_settings = [enabled |-> TRUE]
    /\ music_state = [music_track |-> "", music_mood |-> ""]
    /\ music_base = NoFile
    /\ music_file = [duration |-> R(1), fault |-> "none"]
    /\ mix_duration = R(1)
    /\ audio_runs = <<>>

CropIdle ==
    /\ crop_in = [w |-> 1, h |-> 1, target_width |-> 1, target_height |-> 1]
    /\ crop_out = NotCalled

VoiceIdle == voice_in = [present |-> FALSE] /\ voice_out = NotCalled

RenderIdle ==
    /\ gpu_available = "None"
    /\ voiceover_exists = TRUE
    /\ requests = <<>>
    /\ probe_log = [checks |-> 0, returned |-> {}, last |-> "none",
                    first |-> "none", first_thread |-> 0]
    /\ encodes = 0

(***************************************************************************)
(* Specification of the project's footage list and TimelineBuilder.        *)
(***************************************************************************)
InitTimeline ==
    /\ TimelineInit /\ CaptionIdle /\ PreprocessIdle /\ GroupIdle /\ WrapIdle
    /\ AudioIdle /\ RenderIdle /\ CropIdle
    /\ VoiceIdle

NextTimeline ==
    \/ \E clip \in Catalogue : AddFootage(clip)
    \/ \E f \in RemoveFilenames, k \in RemoveKeywords : RemoveFootage(f, k)
    \/ \E d \in Durations, fs \in [Filenames -> FileStatus] :
           BuildVideoTrack(d, fs)

SpecTimeline == InitTimeline /\ [][NextTimeline]_vars

\* The timeline persisted by the most recent _build_video_track call on a
\* non-empty footage list, with that call's total duration.
BuiltFromClips == build.called /\ Len(build.clips) >= 1

\* C1: for a footage list of N >= 1 clips and total duration D > 0 the
\* persisted TimelineEntry list is sorted by start, its first entry starts
\* at 0, consecutive entries are contiguous, entries are pairwise
\* non-overlapping, and every entry has 0 <= start <= end <= D.
C1_TimelineWellFormed ==
    BuiltFromClips =>
        LET tl == get_timeline
            D  == build.duration
        IN  /\ tl # <<>> => tl[1].start = R(0)
            /\ \A i \in 1..Len(tl) :
                   /\ RLe(R(0), tl[i].start)
                   /\ RLe(tl[i].start, tl[i].end)
                   /\ RLe(tl[i].end, D)
            /\ \A i \in 1..(Len(tl) - 1) :
                   /\ tl[i].end = tl[i + 1].start
                   /\ RLe(tl[i].start, tl[i + 1].start)
            /\ \A i, j \in 1..Len(tl) : i < j => RLe(tl[i].end, tl[j].start)

\* Three clips were assembled, one of them was skipped, two have entries.
C1_Witness ==
    /\ build.called
    /\ Len(build.clips) = 3
    /\ \E i \in 1..3 : build.fs[build.clips[i].filename] # "ok"
    /\ Len(get_timeline) = 2
    /\ get_timeline[2].start # R(0)

\* C2: for a footage list of N >= 1 clips and total duration D the persisted
\* TimelineEntry list covers [0, D): its last entry ends at D, whichever
\* clips loaded or were skipped.
C2_LastEntryEndsAtDuration ==
    BuiltFromClips =>
        /\ get_timeline # <<>>
        /\ Last(get_timeline).end = build.duration

\* No clip of the call's footage list was usable.
ZeroUsable ==
    \A i \in 1..Len(build.clips) : build.fs[build.clips[i].filename] # "ok"

\* C3: with zero usable footage clips _build_video_track returns a filler
\* track of duration D and the timeline is a single filler entry spanning
\* [0, D).
C3_FillerEntrySpansDuration ==
    (build.called /\ ZeroUsable) =>
        /\ build.returned = ColorClip(build.duration)
        /\ Len(get_timeline) = 1
        /\ get_timeline[1].start = R(0)
        /\ get_timeline[1].end = build.duration

\* The clips of the call's footage list that loaded, in list order.
LoadedClips == SelectSeq(build.clips, LAMBDA c : build.fs[c.filename] = "ok")

\* C4: a clip whose file is missing or whose load raises adds no entry and
\* does not advance the running offset; every loadable clip gets exactly one
\* entry, in the order of the input list.
C4_SkippedClipsLeaveNoEntry ==
    BuiltFromClips =>
        LET tl   == get_timeline
            slot == RDiv(build.duration, R(Len(build.clips)))
        IN  /\ Len(tl) = Len(LoadedClips)
            /\ \A j \in 1..Len(tl) :
                   /\ tl[j].clip_filename = LoadedClips[j].filename
                   /\ tl[j].keyword = LoadedClips[j].keyword
                   /\ tl[j].start = RMul(R(j - 1), slot)

\* A missing first clip and a corrupt clip were skipped around a loaded one.
C4_Witness ==
    /\ build.called
    /\ Len(build.clips) = 3
    /\ build.fs[build.clips[1].filename] = "missing"
    /\ build.fs[build.clips[2].filename] = "ok"
    /\ build.fs[build.clips[3].filename] = "missing"
    /\ Len(get_timeline) = 1
    /\ \E f \in Filenames : build.fs[f] = "ok"

\* The list an assembly computes from its clip list.
ComputedTimeline(clips, fs, duration) ==
    IF clips = <<>> THEN <<>> ELSE BuildLocals(clips, fs, duration).timeline

\* C5: after any sequence of assemblies, footage additions and removals, the
\* timeline returned by get_timeline is the list computed by the most recent
\* assembly from that assembly's clip list (an empty list included).
C5_TimelineIsLatestAssembly ==
    build.called =>
        get_timeline = ComputedTimeline(build.clips, build.fs, build.duration)


(***************************************************************************)
(* Specification of the caption part of assemble_video (lines 80-86):      *)
(* timestamps from the sidecar or the fallback generator, then             *)
(* render_captions.                                                        *)
(***************************************************************************)
MaxScriptLen == 4
MaxSidecar   == 2

ScriptChars == {"a", ".", "B", " "}

\* Scripts: every short text, and a few longer ones that fill a caption group.
Scripts ==
    SeqsUpTo(ScriptChars, MaxScriptLen)
    \cup { <<"a", " ", "a", " ", "a", " ", "a", " ", "a">>,
           <<"a", ".", " ", "a", " ", "a", NL, "a", ".", "B">> }

\* Provider tokens of a sidecar file; the provider's times are not checked.
SidecarTokens ==
    { WordTimestamp(w, R(st), R(en)) :
        w \in {<<"a">>, <<"a", ".">>}, st \in {0, 1}, en \in {0, 1, 2} }

Sidecars == SeqsUpTo(SidecarTokens, MaxSidecar)

CaptionConfigs == [enabled : BOOLEAN, style : {"word_by_word", "sentence"}]

InitCaptions ==
    /\ cap_pc = "start"
    /\ total_duration \in {R(d) : d \in Durations}
    /\ cap_cfg \in CaptionConfigs
    /\ \/ sidecar \in {NoFile, File(<<>>)} /\ script \in Scripts \cup {None}
       \/ sidecar \in {File(tss) : tss \in Sidecars} /\ script = None
    /\ word_timestamps = <<>>
    /\ ts_source = "none"
    /\ text_clip_raises = {}
    /\ caption_units = <<>>
    /\ TimelineIdle /\ PreprocessIdle /\ GroupIdle /\ WrapIdle /\ AudioIdle /\ RenderIdle /\ CropIdle
    /\ VoiceIdle

\* assemble_video lines 81-85
TimeWords ==
    /\ cap_pc = "start"
    /\ LET loaded == load_word_timestamps(sidecar) IN
       IF loaded # <<>>
       THEN /\ word_timestamps' = loaded
            /\ ts_source' = "sidecar"
       ELSE /\ word_timestamps' =
                generate_word_timestamps(IF script = None THEN <<>> ELSE script,
                                         total_duration)
            /\ ts_source' = "fallback"
    /\ cap_pc' = "timed"
    /\ UNCHANGED <<sidecar, script, total_duration, cap_cfg, text_clip_raises,
                   caption_units>>
    /\ UNCHANGED <<tlVars, ppVars, grpVars, wrapVars, audVars, rndVars, cropVars,
                   voiceVars>>

\* assemble_video line 86: render_captions(video, word_timestamps); any of
\* the TextClip constructions may raise.
RenderCaptions ==
    /\ cap_pc = "timed"
    /\ LET candidates == CaptionCandidates(cap_cfg, word_timestamps) IN
       \E raises \in SUBSET (1..Len(candidates)) :
           /\ caption_units' = RenderedClips(candidates, raises)
           /\ text_clip_raises' = raises
    /\ cap_pc' = "captioned"
    /\ UNCHANGED <<sidecar, script, total_duration, cap_cfg, word_timestamps,
                   ts_source>>
    /\ UNCHANGED <<tlVars, ppVars, grpVars, wrapVars, audVars, rndVars, cropVars,
                   voiceVars>>

NextCaptions == TimeWords \/ RenderCaptions

SpecCaptions == InitCaptions /\ [][NextCaptions]_vars

\* The whitespace-delimited tokens of the script given to the generator.
ScriptTokens == SplitWords(IF script = None THEN <<>> ELSE script, <<>>)

\* C6: given a total duration D > 0 and a script with at least one token,
\* generate_word_timestamps emits one timestamp per whitespace-delimited
\* token in order, the starts are non-decreasing, each start <= end, and
\* the last timestamp's end equals D.
C6_FallbackTimestamps ==
    (cap_pc # "start" /\ ts_source = "fallback" /\ ScriptTokens # <<>>) =>
        LET tss == word_timestamps IN
        /\ Len(tss) = Len(ScriptTokens)
        /\ \A i \in 1..Len(tss) :
               /\ tss[i].word = ScriptTokens[i]
               /\ RLe(tss[i].start, tss[i].end)
        /\ \A i \in 1..(Len(tss) - 1) : RLe(tss[i].start, tss[i + 1].start)
        /\ Last(tss).end = total_duration

\* The generator ran on a script of words of different lengths.
C6_Witness ==
    /\ cap_pc = "timed"
    /\ ts_source = "fallback"
    /\ Len(word_timestamps) >= 2
    /\ Len(word_timestamps[1].word) # Len(word_timestamps[2].word)
    /\ total_duration = R(2)

\* The units start at 0, end at d, and each starts where the previous ends.
CoversDuration(units, d) ==
    /\ units # <<>>
    /\ units[1].start = R(0)
    /\ \A i \in 1..(Len(units) - 1) :
           RAdd(units[i].start, units[i].duration) = units[i + 1].start
    /\ RAdd(Last(units).start, Last(units).duration) = d

\* Captions are enabled, there are timestamps, and every TextClip rendered.
CaptionsRendered ==
    /\ cap_pc = "captioned"
    /\ cap_cfg.enabled
    /\ word_timestamps # <<>>
    /\ text_clip_raises = {}

\* C7 as claimed: for either timestamp source and either style the caption
\* units cover [0, totalDuration): the first starts at 0, the last ends at
\* totalDuration, and consecutive units neither leave a gap nor overlap.
C7_UnitsCoverDuration ==
    CaptionsRendered => CoversDuration(caption_units, total_duration)

\* C7 as amended: with the script-only fallback, in either style, the units
\* cover [0, totalDuration) when every unit renders.
C7_FallbackUnitsCoverDuration ==
    (CaptionsRendered /\ ts_source = "fallback") =>
        CoversDuration(caption_units, total_duration)

\* Sentence-style captions of a fallback script made three units,
\* one of them from a token split at a sentence boundary.
C7_Witness ==
    /\ CaptionsRendered
    /\ ts_source = "fallback"
    /\ cap_cfg.style = "sentence"
    /\ Len(caption_units) = 3
    /\ Len(preprocess_timestamps(word_timestamps)) > Len(word_timestamps)

\* The cleaned tokens handed to the word-by-word renderer.
CleanedTokens == preprocess_timestamps(word_timestamps)

\* The positions of the cleaned tokens that made a caption unit: those
\* that end after they start and whose rendering did not raise.
ShownTokens ==
    { i \in 1..Len(CleanedTokens) :
        /\ RLt(CleanedTokens[i].start, CleanedTokens[i].end)
        /\ i \notin text_clip_raises }

\* C26: in word_by_word style every cleaned token that ends after it
\* starts and whose rendering succeeds makes exactly one caption unit, with
\* the token's text, start and duration, in input order; a token whose
\* start equals its end makes none.
C26_OneUnitPerWord ==
    (cap_pc = "captioned" /\ cap_cfg.enabled /\ cap_cfg.style = "word_by_word") =>
        /\ Len(caption_units) = Cardinality(ShownTokens)
        /\ \A i \in ShownTokens :
               LET k  == Cardinality({ j \in ShownTokens : j <= i })
                   ts == CleanedTokens[i]
               IN  /\ caption_units[k].text = ts.word
                   /\ caption_units[k].start = ts.start
                   /\ caption_units[k].duration = RSub(ts.end, ts.start)

\* Of two word-by-word tokens the one with start = end made no unit and
\* the other made one.
C26_Witness ==
    /\ cap_pc = "captioned"
    /\ cap_cfg.enabled
    /\ cap_cfg.style = "word_by_word"
    /\ text_clip_raises = {}
    /\ Len(CleanedTokens) = 2
    /\ CleanedTokens[1].start = CleanedTokens[1].end
    /\ RLt(CleanedTokens[2].start, CleanedTokens[2].end)
    /\ Len(caption_units) = 1

\* start <= end in every token and the starts never decrease.
Monotone(tss) ==
    /\ \A i \in 1..Len(tss) : RLe(tss[i].start, tss[i].end)
    /\ \A i \in 1..(Len(tss) - 1) : RLe(tss[i].start, tss[i + 1].start)

\* C27: timestamps loaded from the sidecar are validated for monotonicity
\* before use: a sequence whose starts decrease, or with some start > end,
\* never reaches preprocessing, grouping and rendering.
C27_SidecarValidated ==
    (cap_pc = "captioned" /\ cap_cfg.enabled /\ ts_source = "sidecar") =>
        Monotone(word_timestamps)

\* No token's share can fall under the 0.15 s floor: the smallest weight is
\* 1 and the weights sum to at most the number of characters, so every
\* share is at least D / SumLen >= 3/20.
FloorNeverBinds ==
    RLe(RMul(Rat(3, 20), R(SumLen(ScriptTokens))), total_duration)

\* C28: the fallback generator allots time in proportion to
\* sqrt(max(len(token), 1)): within one script a token with more characters
\* gets a strictly longer interval than one with fewer (the 0.15 s floor
\* not binding), and tokens of equal length get equal intervals.
C28_LongerWordsGetMoreTime ==
    (cap_pc # "start" /\ ts_source = "fallback" /\ FloorNeverBinds) =>
        \A i, j \in 1..Len(word_timestamps) :
            LET length(k)   == Len(word_timestamps[k].word)
                interval(k) == RSub(word_timestamps[k].end,
                                    word_timestamps[k].start)
            IN  /\ length(i) > length(j) => RLt(interval(j), interval(i))
                /\ length(i) = length(j) => interval(i) = interval(j)


(***************************************************************************)
(* Specification of _preprocess_timestamps on a provider token.            *)
(***************************************************************************)
MaxWordLen      == 4
MaxParagraphLen == 7

\* Token texts: every short text over the characters the function tells
\* apart, longer ones made of letters and newlines, and longer ones made of
\* punctuation and capitals.
TokenTexts ==
    SeqsUpTo({"a", ".", "B", NL, " "}, MaxWordLen)
    \cup SeqsUpTo({"a", NL}, MaxParagraphLen)
    \cup SeqsUpTo({".", "B"}, MaxWordLen + 1)

\* [start, end] of a token, in seconds.
TokenTimes == {<<0, 1>>, <<0, 3>>, <<1, 1>>, <<1, 3>>}

InitPreprocess ==
    /\ pp_in \in { <<WordTimestamp(w, R(t[1]), R(t[2]))>> :
                       w \in TokenTexts, t \in TokenTimes }
    /\ pp_out = NotCalled
    /\ TimelineIdle /\ CaptionIdle /\ GroupIdle /\ WrapIdle /\ AudioIdle /\ RenderIdle /\ CropIdle
    /\ VoiceIdle

Preprocess ==
    /\ ~pp_out.returned
    /\ pp_out' = Returned(preprocess_timestamps(pp_in))
    /\ UNCHANGED pp_in
    /\ UNCHANGED <<tlVars, capVars, grpVars, wrapVars, audVars, rndVars, cropVars,
                   voiceVars>>

NextPreprocess == Preprocess

SpecPreprocess == InitPreprocess /\ [][NextPreprocess]_vars

RECURSIVE SumDurations(_)
SumDurations(tss) ==
    IF tss = <<>> THEN R(0)
    ELSE RAdd(RSub(Head(tss).end, Head(tss).start), SumDurations(Tail(tss)))

\* C8: a token [start, end] whose text has a paragraph break and k >= 2
\* non-empty parts yields exactly k entries, one per part in order with the
\* part's text; the intervals are consecutive (the first starts at start,
\* each next starts where the previous ends), each has a length
\* proportional to its part's character count, and the lengths sum to
\* end - start.
C8_ParagraphSplit ==
    (/\ pp_out.returned
     /\ Len(pp_in) = 1
     /\ HasParagraphBreak(pp_in[1].word)
     /\ Len(ParagraphParts(pp_in[1].word)) >= 2) =>
        LET ts    == pp_in[1]
            parts == ParagraphParts(ts.word)
            out   == pp_out.value
            span  == RSub(ts.end, ts.start)
        IN  /\ Len(out) = Len(parts)
            /\ \A i \in 1..Len(out) :
                   /\ out[i].word = parts[i]
                   /\ RMul(RSub(out[i].end, out[i].start), R(SumLen(parts)))
                          = RMul(span, R(Len(parts[i])))
            /\ out[1].start = ts.start
            /\ \A i \in 1..(Len(out) - 1) : out[i + 1].start = out[i].end
            /\ SumDurations(out) = span

\* A token of positive length was split into parts of different sizes.
C8_Witness ==
    /\ pp_out.returned
    /\ HasParagraphBreak(pp_in[1].word)
    /\ RLt(pp_in[1].start, pp_in[1].end)
    /\ Len(pp_out.value) = 2
    /\ Len(pp_out.value[1].word) > Len(pp_out.value[2].word)

\* Positions i where word[i] is '.', '!' or '?' and word[i+1] is a capital.
Boundaries(word) ==
    { i \in 1..(Len(word) - 1) : IsPunct(word[i]) /\ IsCapital(word[i + 1]) }

\* The output is the token cut in two after position i: the texts, the
\* shared meeting point and the proportional first share.
CutInTwo(ts, out, i, text) ==
    /\ Len(out) = 2
    /\ out[1].word = SubSeq(text, 1, i)
    /\ out[1].word \o out[2].word = text
    /\ out[1].start = ts.start
    /\ out[2].end = ts.end
    /\ out[2].start = out[1].end
    /\ RMul(RSub(out[1].end, out[1].start), R(Len(text)))
           = RMul(RSub(ts.end, ts.start), R(Len(out[1].word)))

\* C23 as stated: every token without a paragraph break whose text has
\* sentence-ending punctuation immediately followed by a capital letter
\* yields exactly two sub-tokens that concatenate to the token's text, cut
\* at such a boundary; the first starts at the token's start, the second
\* ends at the token's end, they meet at one point, and the first one's
\* share of the duration equals its share of the characters.
C23_SplitAtEveryBoundary ==
    (/\ pp_out.returned
     /\ Len(pp_in) = 1
     /\ ~HasParagraphBreak(pp_in[1].word)
     /\ Boundaries(pp_in[1].word) # {}) =>
        \E i \in Boundaries(pp_in[1].word) :
            CutInTwo(pp_in[1], pp_out.value, i, pp_in[1].word)

\* The token's text without one final newline.
WithoutFinalNewline(word) ==
    IF word # <<>> /\ word[Len(word)] = NL
    THEN SubSeq(word, 1, Len(word) - 1) ELSE word

\* C23 (amended): a token whose text, one final newline aside, holds no
\* newline and has sentence-ending punctuation that is preceded by at
\* least one character and immediately followed by a capital letter
\* yields exactly two sub-tokens, cut after the last such punctuation;
\* their texts concatenate to the token's text without its final newline,
\* the first starts at the token's start, the second ends at the token's
\* end, they meet at one point, and the first one's share of the duration
\* equals its share of the characters.  Any other token without a
\* paragraph break yields at most one entry.
C23_SentenceSplit ==
    (pp_out.returned /\ Len(pp_in) = 1 /\ ~HasParagraphBreak(pp_in[1].word)) =>
        LET ts   == pp_in[1]
            text == WithoutFinalNewline(ts.word)
            cuts == { i \in Boundaries(text) : i >= 2 }
        IN  IF cuts # {} /\ \A j \in 1..Len(text) : text[j] # NL
            THEN \E i \in cuts :
                    /\ \A k \in cuts : k <= i
                    /\ CutInTwo(ts, pp_out.value, i, text)
            ELSE Len(pp_out.value) <= 1

\* A token of positive length with two boundaries was cut after the last
\* one into parts of different sizes.
C23_Witness ==
    /\ pp_out.returned
    /\ ~HasParagraphBreak(pp_in[1].word)
    /\ Cardinality({ i \in Boundaries(pp_in[1].word) : i >= 2 }) = 2
    /\ RLt(pp_in[1].start, pp_in[1].end)
    /\ Len(pp_out.value) = 2
    /\ Len(pp_out.value[1].word) > Len(pp_out.value[2].word) + 1

\* C24: after _preprocess_timestamps no output token's text contains a
\* newline character and no output token's text is empty.
C24_NoNewlineNoEmptyToken ==
    pp_out.returned =>
        \A i \in 1..Len(pp_out.value) :
            /\ pp_out.value[i].word # <<>>
            /\ \A j \in 1..Len(pp_out.value[i].word) :
                   pp_out.value[i].word[j] # NL

\* C29: preprocessing is idempotent: applied to its own output,
\* _preprocess_timestamps returns that output unchanged.
C29_PreprocessIdempotent ==
    pp_out.returned => preprocess_timestamps(pp_out.value) = pp_out.value

(***************************************************************************)
(* Specification of _group_into_sentences.                                 *)
(***************************************************************************)
MaxGroupTokens == 10
MaxCap         == 4

GroupWords == {<<"a">>, <<"a", ".">>}

\* Timestamps one second apart for a list of words.
TokensOf(ws) == [i \in 1..Len(ws) |-> WordTimestamp(ws[i], R(i - 1), R(i))]

InitGroup ==
    /\ grp_in \in {TokensOf(ws) : ws \in SeqsUpTo(GroupWords, MaxGroupTokens)}
    /\ grp_max \in 1..MaxCap
    /\ grp_out = NotCalled
    /\ TimelineIdle /\ CaptionIdle /\ PreprocessIdle /\ WrapIdle /\ AudioIdle /\ RenderIdle /\ CropIdle
    /\ VoiceIdle

GroupIntoSentences ==
    /\ ~grp_out.returned
    /\ grp_out' = Returned(group_into_sentences(grp_in, grp_max))
    /\ UNCHANGED <<grp_in, grp_max>>
    /\ UNCHANGED <<tlVars, capVars, ppVars, wrapVars, audVars, rndVars, cropVars,
                   voiceVars>>

NextGroup == GroupIntoSentences

SpecGroup == InitGroup /\ [][NextGroup]_vars

\* C9: n >= 1 tokens none of which ends with '.', '!' or '?' and a cap
\* m >= 1 give exactly ceil(n/m) groups, each of size <= m.
C9_GroupCount ==
    (/\ grp_out.returned
     /\ Len(grp_in) >= 1
     /\ \A i \in 1..Len(grp_in) : ~EndsSentence(grp_in[i].word)) =>
        /\ Len(grp_out.value) = (Len(grp_in) + grp_max - 1) \div grp_max
        /\ \A g \in 1..Len(grp_out.value) : Len(grp_out.value[g]) <= grp_max

\* Ten unpunctuated tokens with a cap of four made three groups.
C9_Witness ==
    /\ grp_out.returned
    /\ Len(grp_in) = 10
    /\ \A i \in 1..Len(grp_in) : ~EndsSentence(grp_in[i].word)
    /\ grp_max = 4
    /\ Len(grp_out.value) = 3

\* C25: the groups partition the input in order: their concatenation is
\* the input token sequence, no group is empty, every group has at most
\* max_words tokens, a token ending with '.', '!' or '?' is the last token
\* of its group, and every group but the final one ends with such a token
\* or has exactly max_words tokens.
C25_GroupsPartitionInput ==
    grp_out.returned =>
        LET groups == grp_out.value IN
        /\ Concat(groups) = grp_in
        /\ \A g \in 1..Len(groups) :
               /\ groups[g] # <<>>
               /\ Len(groups[g]) <= grp_max
               /\ \A j \in 1..(Len(groups[g]) - 1) :
                      ~EndsSentence(groups[g][j].word)
        /\ \A g \in 1..(Len(groups) - 1) :
               \/ EndsSentence(groups[g][Len(groups[g])].word)
               \/ Len(groups[g]) = grp_max

\* One call made a short group closed by punctuation, a full group closed
\* by the cap, and a final partial group.
C25_Witness ==
    /\ grp_out.returned
    /\ grp_max = 3
    /\ Len(grp_out.value) >= 3
    /\ \E g \in 1..(Len(grp_out.value) - 1) :
           /\ Len(grp_out.value[g]) = 2
           /\ EndsSentence(grp_out.value[g][2].word)
    /\ \E g \in 1..(Len(grp_out.value) - 1) :
           /\ Len(grp_out.value[g]) = grp_max
           /\ ~EndsSentence(grp_out.value[g][grp_max].word)
    /\ LET last == grp_out.value[Len(grp_out.value)] IN
           Len(last) < grp_max /\ ~EndsSentence(last[Len(last)].word)

(***************************************************************************)
(* Specification of _wrap_text_by_words.                                   *)
(***************************************************************************)
MaxTextLen == 5
MaxWidth   == 6

WrapChars == {"a", "b", " ", NL}

\* Font sizes for which int(len * (font_size * 0.6)) is floor(3*font_size*len/5)
FontSizes == {1, 2, 5}

InitWrap ==
    /\ wrap_in \in [text : SeqsUpTo(WrapChars, MaxTextLen),
                    font_size : FontSizes,
                    max_width : 0..MaxWidth]
    /\ wrap_out = NotCalled
    /\ TimelineIdle /\ CaptionIdle /\ PreprocessIdle /\ GroupIdle /\ AudioIdle /\ RenderIdle /\ CropIdle
    /\ VoiceIdle

WrapText ==
    /\ ~wrap_out.returned
    /\ wrap_out' = Returned(wrap_text_by_words(wrap_in.text, wrap_in.font_size,
                                               wrap_in.max_width))
    /\ UNCHANGED wrap_in
    /\ UNCHANGED <<tlVars, capVars, ppVars, grpVars, audVars, rndVars, cropVars,
                   voiceVars>>

NextWrap == WrapText

SpecWrap == InitWrap /\ [][NextWrap]_vars

\* The lines of a wrapped text: the pieces between its line breaks.
RECURSIVE SplitLines(_, _)
SplitLines(s, cur) ==
    IF s = <<>> THEN <<cur>>
    ELSE IF Head(s) = NL THEN <<cur>> \o SplitLines(Tail(s), <<>>)
    ELSE SplitLines(Tail(s), Append(cur, Head(s)))

\* C10: no output line has an estimated width (_estimate_text_width of the
\* whole line) greater than max width, unless the line is a single word
\* that alone exceeds max width.
C10_LinesFitMaxWidth ==
    (wrap_out.returned /\ SplitWords(wrap_in.text, <<>>) # <<>>) =>
        LET lines == SplitLines(wrap_out.value, <<>>) IN
        \A i \in 1..Len(lines) :
            \/ estimate_text_width(lines[i], wrap_in.font_size) <= wrap_in.max_width
            \/ Len(SplitWords(lines[i], <<>>)) = 1

\* The output keeps the input's words and has no line without a word.
WordsKeptOnLines ==
    LET lines == SplitLines(wrap_out.value, <<>>) IN
    /\ SplitWords(wrap_out.value, <<>>) = SplitWords(wrap_in.text, <<>>)
    /\ \A i \in 1..Len(lines) : SplitWords(lines[i], <<>>) # <<>>

\* C11 as stated, for every input: splitting the output on whitespace gives
\* the input's word sequence, every output line holds at least one word and
\* lines are separated by exactly one line break.
C11_WordsPreservedEveryInput ==
    wrap_out.returned => WordsKeptOnLines

\* C11 (amended): for every input that holds at least one word, splitting
\* the output on whitespace gives the input's word sequence, every output
\* line holds at least one word, and lines are separated by exactly one
\* line break (the output is its lines' words joined by single spaces, the
\* lines joined by single line breaks); an input without a word is returned
\* unchanged.
C11_WordsPreserved ==
    wrap_out.returned =>
        IF SplitWords(wrap_in.text, <<>>) = <<>>
        THEN wrap_out.value = wrap_in.text
        ELSE LET lines == SplitLines(wrap_out.value, <<>>) IN
             /\ WordsKeptOnLines
             /\ \A i \in 1..Len(lines) :
                    lines[i] = Join(SplitWords(lines[i], <<>>), <<" ">>)

\* A text of three words was wrapped onto more than one line.
C11_Witness ==
    /\ wrap_out.returned
    /\ Len(SplitWords(wrap_in.text, <<>>)) = 3
    /\ Len(SplitLines(wrap_out.value, <<>>)) >= 2

(***************************************************************************)
(* Specification of the AudioMixer: _build_audio_track called on one       *)
(* project, one configuration and one asset directory.                     *)
(***************************************************************************)
MaxAudioRuns == 2
MaxMusicDirs == 2

MusicFiles     == {"m1.mp3", "m2.wav"}
MoodNames      == {"calm", "epic"}
MusicDurations == {Rat(1, 2), Rat(3, 2), R(3)}
MusicFaults    == {"none", "load", "effects"}

\* The listings of assets/music: directories with distinct names.
MusicListings ==
    { dirs \in SeqsUpTo([name : MoodNames, files : SUBSET MusicFiles], MaxMusicDirs) :
        \A i, j \in 1..Len(dirs) : dirs[i].name = dirs[j].name => i = j }

InitAudio ==
    /\ music_settings \in [enabled : BOOLEAN]
    /\ music_state \in [music_track : {"", "t.mp3", "gone.mp3"},
                         music_mood : {"", "epic"}]
    /\ music_base \in {NoFile} \cup { File(dirs) : dirs \in MusicListings }
    /\ music_file \in [duration : MusicDurations, fault : MusicFaults]
    /\ mix_duration \in { R(d) : d \in Durations }
    /\ audio_runs = <<>>
    /\ TimelineIdle /\ CaptionIdle /\ PreprocessIdle /\ GroupIdle /\ WrapIdle
    /\ RenderIdle /\ CropIdle
    /\ VoiceIdle

\* One call of _build_audio_track(voiceover, project, duration).  The path
\* is what random.choice picked; path_exists is music_path.exists().
BuildAudioTrack ==
    /\ Len(audio_runs) < MaxAudioRuns
    /\ \E music_path \in get_music_track(music_state, music_base),
          path_exists \in BOOLEAN :
          audio_runs' = Append(audio_runs,
              [resolved |-> music_path,
               exists   |-> path_exists,
               audio    |-> build_audio_track(music_settings, music_path,
                                path_exists, music_file, mix_duration)])
    /\ UNCHANGED <<music_settings, music_state, music_base, music_file, mix_duration>>
    /\ UNCHANGED <<tlVars, capVars, ppVars, grpVars, wrapVars, rndVars, cropVars,
                   voiceVars>>

NextAudio == BuildAudioTrack

SpecAudio == InitAudio /\ [][NextAudio]_vars

\* The music of a call was loaded, looped, trimmed and given its effects.
MusicLoaded(run) ==
    /\ music_settings.enabled
    /\ run.resolved # ""
    /\ run.exists
    /\ music_file.fault = "none"

\* C12: for every music duration d > 0 and total duration D > 0 the audio
\* track returned by _build_audio_track is exactly D long: music shorter
\* than D is looped to a length >= D and then trimmed to exactly D, music
\* at least D long is trimmed to D.
C12_AudioTrackIsDurationLong ==
    \A i \in 1..Len(audio_runs) :
        LET run == audio_runs[i] IN
        /\ run.audio.duration = mix_duration
        /\ MusicLoaded(run) =>
              /\ Len(run.audio.clips) = 2
              /\ run.audio.clips[2].kind = "music"
              /\ run.audio.clips[2].duration = mix_duration
              /\ RLe(mix_duration, run.audio.clips[2].looped)
              /\ ~RLt(music_file.duration, mix_duration) =>
                     run.audio.clips[2].looped = music_file.duration

\* Music of 3/2 s under a narration of 2 s was looped and trimmed.
C12_Witness ==
    /\ music_file.duration = Rat(3, 2)
    /\ mix_duration = R(2)
    /\ \E i \in 1..Len(audio_runs) :
           /\ MusicLoaded(audio_runs[i])
           /\ audio_runs[i].audio.clips[2].looped = R(3)
           /\ audio_runs[i].audio.duration = R(2)

\* C13: _build_audio_track returns the narration track alone whenever
\* music is disabled, no track resolves, the resolved path does not exist,
\* or loading, looping or trimming the music raises; the narration clip is
\* always the first component, as it was passed in.
C13_NarrationAloneOnFallback ==
    \A i \in 1..Len(audio_runs) :
        LET run == audio_runs[i] IN
        /\ run.audio.clips[1] = VoiceoverClip(mix_duration)
        /\ ~MusicLoaded(run) => run.audio.clips = <<VoiceoverClip(mix_duration)>>

\* With music enabled and an existing track whose processing raises, the
\* call returned the narration alone.
C13_Witness ==
    \E i \in 1..Len(audio_runs) :
        /\ music_settings.enabled
        /\ audio_runs[i].resolved # ""
        /\ audio_runs[i].exists
        /\ music_file.fault = "effects"
        /\ audio_runs[i].audio.clips = <<VoiceoverClip(mix_duration)>>

(***************************************************************************)
(* RenderPipeline: _check_nvidia_gpu, _get_video_codec, assemble_video,    *)
(* render_preview and render_final, called by render requests that are     *)
(* threads of one process.                                                 *)
(***************************************************************************)
MaxRenders == 3

Tiers == {"preview", "final"}

\* What `ffmpeg -hide_banner -encoders` can do: list h264_nvenc, not list
\* it, or fail (not installed, timeout).
ProbeOutcomes == {"nvenc", "absent", "raise"}

\* A faulty variant of get_video_codec: the software encoder in every case.
get_video_codec_software(gpu) == "libx264"

\* _get_video_codec, given what _check_nvidia_gpu returned
get_video_codec(gpu) == IF gpu = "True" THEN "h264_nvenc" ELSE "libx264"

\* ffmpeg_params of render_preview
preview_params(codec) ==
    IF codec = "h264_nvenc"
    THEN <<"-preset", "p1", "-tune", "ll", "-rc", "vbr", "-cq", "28">>
    ELSE <<"-preset", "ultrafast">>

\* ffmpeg_params of render_final
final_params(codec) ==
    IF codec = "h264_nvenc"
    THEN <<"-preset", "p5", "-tune", "hq", "-rc", "vbr", "-cq", "19", "-b:v", "8M">>
    ELSE <<"-preset", "medium", "-b:v", "8M">>

\* The arguments of final_video.write_videofile
WriteArgs(tier, codec) ==
    [tier         |-> tier,
     path         |-> IF tier = "preview" THEN "preview.mp4" ELSE "final.mp4",
     codec        |-> codec,
     audio_codec  |-> "aac",
     ffmpeg_params |-> IF tier = "preview" THEN preview_params(codec)
                       ELSE final_params(codec)]

\* A render request that is not running.  result is what the last call
\* gave its caller: a path, or the exception that propagated.
IdleRequest ==
    [pc |-> "idle", tier |-> "preview", gpu |-> "None", result |-> "none",
     encode |-> <<>>, n |-> 0]

RECURSIVE Started(_)
Started(ps) ==
    IF ps = {} THEN 0
    ELSE LET q == CHOOSE x \in ps : TRUE IN requests[q].n + Started(ps \ {q})

\* render_preview / render_final is called.
StartRender(p, tier) ==
    /\ requests[p].pc = "idle"
    /\ Started(DOMAIN requests) < MaxRenders
    /\ requests' = [requests EXCEPT ![p] =
            [pc |-> "assemble", tier |-> tier, gpu |-> "None", result |-> "none",
             encode |-> <<>>, n |-> @.n + 1]]
    /\ UNCHANGED <<gpu_available, voiceover_exists, probe_log, encodes>>
    /\ UNCHANGED <<tlVars, capVars, ppVars, grpVars, wrapVars, audVars, cropVars,
                   voiceVars>>

\* A faulty variant of Assemble: the video track is built before the
\* narration is looked for.
AssembleBuildsFirst(p) ==
    /\ requests[p].pc = "assemble"
    /\ \E d \in Durations, st \in FileStatus :
           build_video_track(d, [f \in Filenames |-> st])
    /\ requests' = [requests EXCEPT ![p] =
            IF voiceover_exists THEN [@ EXCEPT !.pc = "codec"]
            ELSE [@ EXCEPT !.pc = "idle", !.result = "FileNotFoundError"]]
    /\ UNCHANGED <<gpu_available, voiceover_exists, probe_log, encodes>>
    /\ UNCHANGED <<capVars, ppVars, grpVars, wrapVars, audVars, cropVars,
                   voiceVars>>

\* assemble_video: without the narration file FileNotFoundError leaves
\* render_preview / render_final at once; with it the video track is built
\* (and the timeline persisted) and the composite is returned.
Assemble(p) ==
    /\ requests[p].pc = "assemble"
    /\ IF ~voiceover_exists
       THEN /\ requests' = [requests EXCEPT ![p] =
                    [@ EXCEPT !.pc = "idle", !.result = "FileNotFoundError"]]
            /\ UNCHANGED tlVars
       ELSE /\ \E d \in Durations, st \in FileStatus :
                   build_video_track(d, [f \in Filenames |-> st])
            /\ requests' = [requests EXCEPT ![p] = [@ EXCEPT !.pc = "codec"]]
    /\ UNCHANGED <<gpu_available, voiceover_exists, probe_log, encodes>>
    /\ UNCHANGED <<capVars, ppVars, grpVars, wrapVars, audVars, cropVars,
                   voiceVars>>

\* A call of the probe begins: is it the first, and is the first one still
\* running?
ProbeBegins(log, p) ==
    IF log.first = "none" THEN [log EXCEPT !.first = "running", !.first_thread = p]
    ELSE IF log.first = "running" THEN [log EXCEPT !.first = "raced"]
    ELSE log

\* A call of the probe returns value v to thread p.
ProbeReturns(log, p, v) ==
    [log EXCEPT !.returned = @ \cup {v},
                !.first = IF @ = "running" /\ log.first_thread = p
                          THEN "solo" ELSE @]

\* A faulty variant of CheckGpuEnter: the flag is never consulted.
CheckGpuEnterNoMemo(p) ==
    /\ requests[p].pc = "codec"
    /\ requests' = [requests EXCEPT ![p] = [@ EXCEPT !.pc = "probing"]]
    /\ probe_log' = ProbeBegins(probe_log, p)
    /\ UNCHANGED <<gpu_available, voiceover_exists, encodes>>
    /\ UNCHANGED <<tlVars, capVars, ppVars, grpVars, wrapVars, audVars, cropVars,
                   voiceVars>>

\* _get_video_codec calls _check_nvidia_gpu, which tests the flag: a set
\* flag is returned, an unset one sends the call on to ffmpeg.
CheckGpuEnter(p) ==
    /\ requests[p].pc = "codec"
    /\ IF gpu_available # "None"
       THEN /\ requests' = [requests EXCEPT ![p] =
                    [@ EXCEPT !.pc = "encode", !.gpu = gpu_available]]
            /\ probe_log' = ProbeReturns(ProbeBegins(probe_log, p), p, gpu_available)
       ELSE /\ requests' = [requests EXCEPT ![p] = [@ EXCEPT !.pc = "probing"]]
            /\ probe_log' = ProbeBegins(probe_log, p)
    /\ UNCHANGED <<gpu_available, voiceover_exists, encodes>>
    /\ UNCHANGED <<tlVars, capVars, ppVars, grpVars, wrapVars, audVars, cropVars,
                   voiceVars>>

\* A faulty variant of CheckGpuRun: a check that raises leaves the flag
\* unset.
CheckGpuRunForgetsError(p, outcome) ==
    /\ requests[p].pc = "probing"
    /\ gpu_available' = IF outcome = "nvenc" THEN "True"
                        ELSE IF outcome = "absent" THEN "False"
                        ELSE gpu_available
    /\ probe_log' = [probe_log EXCEPT !.checks = @ + 1, !.last = outcome]
    /\ requests' = [requests EXCEPT ![p] = [@ EXCEPT !.pc = "return"]]
    /\ UNCHANGED <<voiceover_exists, encodes>>
    /\ UNCHANGED <<tlVars, capVars, ppVars, grpVars, wrapVars, audVars, cropVars,
                   voiceVars>>

\* subprocess.run(["ffmpeg", "-hide_banner", "-encoders"]) runs and the
\* flag is assigned: True or False from its output, False when it raised.
CheckGpuRun(p, outcome) ==
    /\ requests[p].pc = "probing"
    /\ gpu_available' = IF outcome = "nvenc" THEN "True" ELSE "False"
    /\ probe_log' = [probe_log EXCEPT !.checks = @ + 1, !.last = outcome]
    /\ requests' = [requests EXCEPT ![p] = [@ EXCEPT !.pc = "return"]]
    /\ UNCHANGED <<voiceover_exists, encodes>>
    /\ UNCHANGED <<tlVars, capVars, ppVars, grpVars, wrapVars, audVars, cropVars,
                   voiceVars>>

\* `return _gpu_available` after the check: the flag is read again.
CheckGpuReturn(p) ==
    /\ requests[p].pc = "return"
    /\ requests' = [requests EXCEPT ![p] =
            [@ EXCEPT !.pc = "encode", !.gpu = gpu_available]]
    /\ probe_log' = ProbeReturns(probe_log, p, gpu_available)
    /\ UNCHANGED <<gpu_available, voiceover_exists, encodes>>
    /\ UNCHANGED <<tlVars, capVars, ppVars, grpVars, wrapVars, audVars, cropVars,
                   voiceVars>>

\* final_video.write_videofile(...): the external encode, which succeeds
\* or raises; then close() and the path is returned.
WriteVideofile(p, ok) ==
    /\ requests[p].pc = "encode"
    /\ LET args == WriteArgs(requests[p].tier, get_video_codec(requests[p].gpu)) IN
       requests' = [requests EXCEPT ![p] =
            [@ EXCEPT !.pc = "idle", !.encode = <<args>>,
                      !.result = IF ok THEN args.path ELSE "EncodeError"]]
    /\ encodes' = encodes + 1
    /\ UNCHANGED <<gpu_available, voiceover_exists, probe_log>>
    /\ UNCHANGED <<tlVars, capVars, ppVars, grpVars, wrapVars, audVars, cropVars,
                   voiceVars>>

\* The narration file is written or removed between steps of the renders.
VoiceoverChanges ==
    /\ voiceover_exists' = ~voiceover_exists
    /\ UNCHANGED <<gpu_available, requests, probe_log, encodes>>
    /\ UNCHANGED <<tlVars, capVars, ppVars, grpVars, wrapVars, audVars, cropVars,
                   voiceVars>>

RenderInit(threads) ==
    /\ gpu_available = "None"
    /\ voiceover_exists \in BOOLEAN
    /\ requests = [p \in threads |-> IdleRequest]
    /\ probe_log = [checks |-> 0, returned |-> {}, last |-> "none",
                    first |-> "none", first_thread |-> 0]
    /\ encodes = 0
    /\ footage_clips \in {<<>>, <<CHOOSE c \in Catalogue : TRUE>>}
    /\ state_timeline = <<>>
    /\ timeline_file = NoFile
    /\ build = [called |-> FALSE]
    /\ CaptionIdle /\ PreprocessIdle /\ GroupIdle /\ WrapIdle /\ AudioIdle
    /\ CropIdle
    /\ VoiceIdle

NextRender ==
    \/ \E p \in DOMAIN requests, tier \in Tiers : StartRender(p, tier)
    \/ \E p \in DOMAIN requests : Assemble(p)
    \/ \E p \in DOMAIN requests : CheckGpuEnter(p)
    \/ \E p \in DOMAIN requests, outcome \in ProbeOutcomes : CheckGpuRun(p, outcome)
    \/ \E p \in DOMAIN requests : CheckGpuReturn(p)
    \/ \E p \in DOMAIN requests, ok \in BOOLEAN : WriteVideofile(p, ok)
    \/ VoiceoverChanges

\* Render requests made one after the other by one thread.
InitRenderSerial == RenderInit({1})

SpecRenderSerial == InitRenderSerial /\ [][NextRender]_vars

\* Render requests made by two threads.
InitRender == RenderInit({1, 2})

SpecRender == InitRender /\ [][NextRender]_vars

\* C14: over any sequence of sequential calls of _check_nvidia_gpu in one
\* process the ffmpeg capability check runs at most once, also when that
\* check raised, and every call returns the value the first call returned.
C14_ProbeRunsAtMostOnce ==
    /\ probe_log.checks <= 1
    /\ Cardinality(probe_log.returned) <= 1

\* Three renders were made one after the other, the one check raised, and
\* every call of the probe returned False.
C14_Witness ==
    /\ requests[1].n = 3
    /\ requests[1].pc = "idle"
    /\ requests[1].encode # <<>>
    /\ probe_log.checks = 1
    /\ probe_log.last = "raise"
    /\ probe_log.returned = {"False"}

\* C15: when two render requests call _check_nvidia_gpu while the flag is
\* still unset the capability check can run more than once; when the first
\* call of the probe completes before any other call starts, no
\* interleaving of later calls runs the check again.
C15_SerializedFirstProbe ==
    probe_log.first = "solo" => probe_log.checks <= 1

\* Two racing first calls each ran the capability check.
C15_Witness ==
    /\ probe_log.first = "raced"
    /\ probe_log.checks >= 2

\* A timeline was persisted by an earlier render and a later render found
\* no narration.
AbortedAfterTimeline(p) ==
    /\ requests[p].pc = "idle"
    /\ requests[p].result = "FileNotFoundError"
    /\ requests[p].encode = <<>>
    /\ timeline_file.exists

\* C16: when the narration asset is missing, assemble_video (and so
\* render_preview and render_final) ends with the error given to the
\* caller before any other step: the persisted timeline is unchanged and
\* the encode is not invoked.
C16_MissingNarrationAborts ==
    [][\A p \in DOMAIN requests :
          (requests[p].pc = "assemble" /\ requests'[p] # requests[p]
              /\ ~voiceover_exists) =>
             /\ requests'[p].pc = "idle"
             /\ requests'[p].result = "FileNotFoundError"
             /\ requests'[p].encode = <<>>
             /\ encodes' = encodes
             /\ gpu_available' = gpu_available
             /\ UNCHANGED <<state_timeline, timeline_file>>]_vars

C16_Witness ==
    \E p \in DOMAIN requests : AbortedAfterTimeline(p)

\* i is the position of an option in the ffmpeg parameters whose value is v
HasOption(params, opt, v) ==
    \E i \in 1..(Len(params) - 1) : params[i] = opt /\ params[i + 1] = v

HasFlag(params, opt) == \E i \in 1..Len(params) : params[i] = opt

\* C18: in both tiers the video codec is h264_nvenc exactly when the probe
\* reported the hardware encoder available and libx264 otherwise, the
\* ffmpeg parameters are those of the selected codec and tier, and the
\* audio codec is aac in all four combinations.
C18_CodecFollowsProbe ==
    \A p \in DOMAIN requests :
        requests[p].encode # <<>> =>
            LET e == requests[p].encode[1] IN
            /\ e.tier = requests[p].tier
            /\ e.codec = (IF requests[p].gpu = "True" THEN "h264_nvenc" ELSE "libx264")
            /\ requests[p].gpu \in {"True", "False"}
            /\ e.audio_codec = "aac"
            /\ e.codec = "h264_nvenc" =>
                  /\ HasOption(e.ffmpeg_params, "-rc", "vbr")
                  /\ HasOption(e.ffmpeg_params, "-preset",
                                IF e.tier = "preview" THEN "p1" ELSE "p5")
                  /\ HasOption(e.ffmpeg_params, "-cq",
                                IF e.tier = "preview" THEN "28" ELSE "19")
            /\ e.codec = "libx264" =>
                  /\ ~HasFlag(e.ffmpeg_params, "-rc")
                  /\ ~HasFlag(e.ffmpeg_params, "-cq")
                  /\ HasOption(e.ffmpeg_params, "-preset",
                                IF e.tier = "preview" THEN "ultrafast" ELSE "medium")
            /\ HasOption(e.ffmpeg_params, "-b:v", "8M") <=> e.tier = "final"

\* A final render on the hardware encoder and a preview on the software
\* encoder were both encoded.
C18_Witness ==
    /\ requests[1].encode # <<>>
    /\ requests[1].encode[1].tier = "final"
    /\ requests[1].encode[1].codec = "h264_nvenc"
    /\ requests[2].encode # <<>>
    /\ requests[2].encode[1].tier = "preview"
    /\ requests[2].encode[1].codec = "libx264"

\* There are no sidecar timestamps and the script holds no word: it is
\* missing, empty or whitespace only.
NothingToCaption ==
    /\ load_word_timestamps(sidecar) = <<>>
    /\ ScriptTokens = <<>>

\* C17: without sidecar timestamps and with an empty, missing or
\* whitespace-only script, generate_word_timestamps returns the empty list
\* and render_captions adds no caption to the video; no TextClip is built
\* and assembly goes on past the caption step.
C17_EmptyScriptNoCaptions ==
    (NothingToCaption /\ cap_pc # "start") =>
        /\ ts_source = "fallback"
        /\ word_timestamps = <<>>
        /\ cap_pc = "captioned" => (caption_units = <<>> /\ text_clip_raises = {})

\* A whitespace-only script, with captions enabled, went through the
\* caption step and left the video without captions.
C17_Witness ==
    /\ sidecar = NoFile
    /\ script = <<" ", " ">>
    /\ cap_cfg.enabled
    /\ cap_pc = "captioned"
    /\ caption_units = <<>>

\* The asset directory held the same files at both calls: each call's
\* track, if it resolved one, existed when tested.
SameAssets(i, j) ==
    /\ audio_runs[i].resolved # "" => audio_runs[i].exists
    /\ audio_runs[j].resolved # "" => audio_runs[j].exists

\* C19: two runs on the same project state, narration, configuration and
\* asset directory contents produce the same selection of audio
\* components.
C19_SameAudioSelection ==
    \A i, j \in 1..Len(audio_runs) :
        SameAssets(i, j) => audio_runs[i].audio = audio_runs[j].audio

\* C20: every TimelineEntry emitted has length exactly
\* totalDuration / clipCount, clipCount being the length of the input clip
\* list, except an entry clamped to end at totalDuration, which is shorter.
C20_EqualAllotment ==
    BuiltFromClips =>
        LET tl        == get_timeline
            allotment == RDiv(build.duration, R(Len(build.clips)))
        IN  \A i \in 1..Len(tl) :
                \/ RSub(tl[i].end, tl[i].start) = allotment
                \/ /\ tl[i].end = build.duration
                   /\ RLt(RSub(tl[i].end, tl[i].start), allotment)

\* Of three clips over two seconds the second was skipped; the two entries
\* are 2/3 s long each and the last one ends at 4/3 s.
C20_Witness ==
    /\ build.called
    /\ Len(build.clips) = 3
    /\ build.duration = R(2)
    /\ build.fs[build.clips[2].filename] # "ok"
    /\ Len(get_timeline) = 2
    /\ RSub(get_timeline[1].end, get_timeline[1].start) = Rat(2, 3)
    /\ get_timeline[2].end = Rat(4, 3)

\* ceil(x) of a non-negative rational
Ceiling(r) == (r[1] + r[2] - 1) \div r[2]

\* C21: whenever music shorter than totalDuration is looped, the number of
\* repetitions requested is ceil(totalDuration / trackDuration), also when
\* totalDuration is an exact multiple of the track's duration; the looped
\* length is that many track durations.
C21_LoopsAreCeiling ==
    \A i \in 1..Len(audio_runs) :
        (MusicLoaded(audio_runs[i]) /\ RLt(music_file.duration, mix_duration)) =>
            /\ LoopsNeeded(mix_duration, music_file.duration)
                  = Ceiling(RDiv(mix_duration, music_file.duration))
            /\ audio_runs[i].audio.clips[2].looped
                  = RMul(R(Ceiling(RDiv(mix_duration, music_file.duration))),
                         music_file.duration)

(***************************************************************************)
(* Python floats of _resize_and_crop.  A positive float is a binary64      *)
(* number 1.b2 b3 ... b53 * 2^exp: its exponent and its 53 significand     *)
(* bits, most significant first.  Division and multiplication round to     *)
(* nearest, ties to even.                                                  *)
(***************************************************************************)
MantissaBits == 53

\* The exponent e with d * 2^e <= n < d * 2^(e+1), for n, d > 0.
RECURSIVE Exponent(_, _)
Exponent(n, d) ==
    IF n >= 2 * d THEN Exponent(n, 2 * d) + 1
    ELSE IF n < d THEN Exponent(2 * n, d) - 1
    ELSE 0

RECURSIVE Pow2(_)
Pow2(k) == IF k = 0 THEN 1 ELSE 2 * Pow2(k - 1)

\* The n low binary digits of v, most significant first.
ToBits(v, n) == [i \in 1..n |-> (v \div Pow2(n - i)) % 2]

\* The next k >= 1 bits of a quotient by d whose remainder so far is r < d,
\* and the remainder after them: long division, eight bits at a time.
RECURSIVE QuotientBits(_, _, _)
QuotientBits(r, d, k) ==
    IF k <= 8
    THEN [bits |-> ToBits((r * Pow2(k)) \div d, k), r |-> (r * Pow2(k)) % d]
    ELSE LET first == QuotientBits(r, d, 8)
             rest  == QuotientBits(first.r, d, k - 8)
         IN  [bits |-> first.bits \o rest.bits, r |-> rest.r]

\* bits + 1, as many bits, for bits that are not all ones.
Increment(bits) ==
    LET k == CHOOSE i \in 1..Len(bits) :
                 bits[i] = 0 /\ \A j \in (i + 1)..Len(bits) : bits[j] = 1
    IN  [i \in 1..Len(bits) |-> IF i < k THEN bits[i] ELSE IF i = k THEN 1 ELSE 0]

\* The float nearest to 1.b2 b3 ... * 2^exp, for an exact value of any
\* number of bits (at least MantissaBits + 1): ties go to the even float.
RoundToFloat(exp, exact) ==
    LET kept   == SubSeq(exact, 1, MantissaBits)
        guard  == exact[MantissaBits + 1]
        sticky == \E i \in (MantissaBits + 2)..Len(exact) : exact[i] = 1
        up     == guard = 1 /\ (sticky \/ kept[MantissaBits] = 1)
    IN  IF ~up THEN [exp |-> exp, bits |-> kept]
        ELSE IF \A i \in 1..MantissaBits : kept[i] = 1
        THEN [exp |-> exp + 1,
              bits |-> [i \in 1..MantissaBits |-> IF i = 1 THEN 1 ELSE 0]]
        ELSE [exp |-> exp, bits |-> Increment(kept)]

\* n / d for positive ints: the true quotient, correctly rounded.
FloatDiv(n, d) ==
    LET e  == Exponent(n, d)
        nn == IF e < 0 THEN n * Pow2(-e) ELSE n
        dd == IF e > 0 THEN d * Pow2(e) ELSE d
        q  == QuotientBits(nn - dd, dd, MantissaBits)
    IN  \* the leading 1, the bits after it, and whether anything is left
        RoundToFloat(e, <<1>> \o q.bits \o <<IF q.r > 0 THEN 1 ELSE 0>>)

\* x <= y
FloatLe(x, y) ==
    \/ x.exp < y.exp
    \/ /\ x.exp = y.exp
       /\ \/ x.bits = y.bits
          \/ \E i \in 1..MantissaBits :
                 /\ x.bits[i] < y.bits[i]
                 /\ \A j \in 1..(i - 1) : x.bits[j] = y.bits[j]

\* max(x, y)
FloatMax(x, y) == IF FloatLe(y, x) THEN x ELSE y

\* The binary digits of c > 0, most significant first; none for 0.
RECURSIVE Binary(_)
Binary(c) == IF c = 0 THEN <<>> ELSE Binary(c \div 2) \o <<c % 2>>

RECURSIVE BitsValue(_)
BitsValue(bits) ==
    IF bits = <<>> THEN 0 ELSE 2 * BitsValue(SubSeq(bits, 1, Len(bits) - 1)) + bits[Len(bits)]

\* c * bits + carry as a binary number: its low Len(bits) bits and the
\* carry out of them: long multiplication, eight bits at a time from the
\* low end.
RECURSIVE TimesBits(_, _, _)
TimesBits(bits, c, carry) ==
    IF Len(bits) <= 8
    THEN [bits  |-> ToBits((c * BitsValue(bits) + carry) % Pow2(Len(bits)), Len(bits)),
          carry |-> (c * BitsValue(bits) + carry) \div Pow2(Len(bits))]
    ELSE LET low  == TimesBits(SubSeq(bits, Len(bits) - 7, Len(bits)), c, carry)
             high == TimesBits(SubSeq(bits, 1, Len(bits) - 8), c, low.carry)
         IN  [bits |-> high.bits \o low.bits, carry |-> high.carry]

\* c * x for an int c > 0 (converted to float without error) and a float x
FloatMulInt(c, x) ==
    LET times   == TimesBits(x.bits, c, 0)
        product == Binary(times.carry) \o times.bits
    IN  RoundToFloat(x.exp + (Len(product) - MantissaBits), product \o <<0>>)

\* int(x): the integer part
FloatInt(x) ==
    IF x.exp < 0 THEN 0 ELSE BitsValue(SubSeq(x.bits, 1, x.exp + 1))

(***************************************************************************)
(* FootageFitter: _resize_and_crop.                                        *)
(***************************************************************************)
\* scale = max(target_width / clip.w, target_height / clip.h)
Scale(w, h, target_width, target_height) ==
    FloatMax(FloatDiv(target_width, w), FloatDiv(target_height, h))

\* _resize_and_crop: the size given to resized() and the window given to
\* cropped().
resize_and_crop(w, h, target_width, target_height) ==
    LET scale      == Scale(w, h, target_width, target_height)
        new_width  == FloatInt(FloatMulInt(w, scale))
        new_height == FloatInt(FloatMulInt(h, scale))
        x_center   == new_width \div 2
        y_center   == new_height \div 2
    IN  [new_width  |-> new_width,
         new_height |-> new_height,
         x1         |-> x_center - target_width \div 2,
         y1         |-> y_center - target_height \div 2,
         width      |-> target_width,
         height     |-> target_height]

(***************************************************************************)
(* Specification of _resize_and_crop.                                      *)
(***************************************************************************)
MaxSide == 12

\* settings.video.width, settings.video.height
VideoHeight == 1920

\* Target frames: the configured one and two small ones.
Targets == {<<VideoWidth, VideoHeight>>, <<9, 16>>, <<4, 3>>}

InitCrop ==
    /\ \E t \in Targets :
           crop_in \in [w : 1..MaxSide, h : 1..MaxSide,
                        target_width : {t[1]}, target_height : {t[2]}]
    /\ crop_out = NotCalled
    /\ TimelineIdle /\ CaptionIdle /\ PreprocessIdle /\ GroupIdle /\ WrapIdle
    /\ AudioIdle /\ RenderIdle /\ VoiceIdle

ResizeAndCrop ==
    /\ ~crop_out.returned
    /\ crop_out' = Returned(resize_and_crop(crop_in.w, crop_in.h,
                                            crop_in.target_width,
                                            crop_in.target_height))
    /\ UNCHANGED crop_in
    /\ UNCHANGED <<tlVars, capVars, ppVars, grpVars, wrapVars, audVars, rndVars,
                   voiceVars>>

NextCrop == ResizeAndCrop

SpecCrop == InitCrop /\ [][NextCrop]_vars

\* C22: for every positive source size and target size the resized frame
\* is at least the target in both dimensions, and the crop window of
\* exactly the target size lies inside the resized frame and is centered
\* to within one pixel.
C22_CropWindowInsideFrame ==
    crop_out.returned =>
        LET r  == crop_out.value
            tw == crop_in.target_width
            th == crop_in.target_height
        IN  /\ r.new_width >= tw
            /\ r.new_height >= th
            /\ r.width = tw /\ r.height = th
            /\ r.x1 >= 0 /\ r.y1 >= 0
            /\ r.x1 + tw <= r.new_width
            /\ r.y1 + th <= r.new_height
            /\ (r.new_width - (r.x1 + tw)) - r.x1 \in -1..1
            /\ (r.new_height - (r.y1 + th)) - r.y1 \in -1..1


(***************************************************************************)
(* generate_voiceover: word timestamps from the character alignment.       *)
(***************************************************************************)
\* A time that may be None: <<>> for None, <<t>> for the value t.
NoTime  == <<>>
Time(t) == <<t>>

\* response.alignment: None, or the characters with their times.
NoAlignment == [present |-> FALSE]
Alignment(chars, starts, ends) ==
    [present |-> TRUE, characters |-> chars,
     character_start_times_seconds |-> starts,
     character_end_times_seconds |-> ends]

\* One iteration of the loop over enumerate(chars).
\* st = [current_word, word_start, word_end, word_timestamps]
VoiceStep(st, i, alignment) ==
    LET chars       == alignment.characters
        char_starts == alignment.character_start_times_seconds
        char_ends   == alignment.character_end_times_seconds
        char        == chars[i]
    IN  IF char = " " \/ i = Len(chars)
        THEN LET closes       == i = Len(chars) /\ char # " "
                 current_word == IF closes THEN Append(st.current_word, char)
                                 ELSE st.current_word
                 word_end     == IF closes THEN Time(char_ends[i])
                                 ELSE st.word_end
             IN  [current_word |-> <<>>,
                  word_start |-> NoTime,
                  word_end |-> word_end,
                  word_timestamps |->
                      IF Strip(current_word) # <<>>
                      THEN Append(st.word_timestamps,
                                  WordTimestamp(Strip(current_word),
                                                st.word_start, word_end))
                      ELSE st.word_timestamps]
        ELSE [current_word |-> Append(st.current_word, char),
              word_start |-> IF st.word_start = NoTime
                             THEN Time(char_starts[i]) ELSE st.word_start,
              word_end |-> Time(char_ends[i]),
              word_timestamps |-> st.word_timestamps]

RECURSIVE VoiceLoop(_, _, _)
VoiceLoop(st, i, alignment) ==
    IF i > Len(alignment.characters) THEN st
    ELSE VoiceLoop(VoiceStep(st, i, alignment), i + 1, alignment)

\* The word_timestamps generate_voiceover dumps to the sidecar.
extract_word_timestamps(alignment) ==
    IF ~alignment.present THEN <<>>
    ELSE VoiceLoop([current_word |-> <<>>, word_start |-> NoTime,
                    word_end |-> NoTime, word_timestamps |-> <<>>],
                   1, alignment).word_timestamps

MaxChars == 4

\* The characters the loop tells apart: a letter, the space, a newline.
AlignmentChars == {"a", " ", NL}

\* Start and end times of characters spoken one after the other, each
\* lasting lengths[i] seconds.
RECURSIVE SumTo(_, _)
SumTo(lengths, k) == IF k = 0 THEN 0 ELSE lengths[k] + SumTo(lengths, k - 1)

Alignments ==
    { Alignment(chars,
                [i \in 1..Len(chars) |-> R(SumTo(lengths, i - 1))],
                [i \in 1..Len(chars) |-> R(SumTo(lengths, i))]) :
        chars \in SeqsUpTo(AlignmentChars, MaxChars),
        lengths \in [1..MaxChars -> {0, 1}] }

InitVoice ==
    /\ voice_in \in Alignments \cup {NoAlignment}
    /\ voice_out = NotCalled
    /\ TimelineIdle /\ CaptionIdle /\ PreprocessIdle /\ GroupIdle /\ WrapIdle
    /\ AudioIdle /\ RenderIdle /\ CropIdle

GenerateVoiceover ==
    /\ ~voice_out.returned
    /\ voice_out' = Returned(extract_word_timestamps(voice_in))
    /\ UNCHANGED voice_in
    /\ UNCHANGED <<tlVars, capVars, ppVars, grpVars, wrapVars, audVars, rndVars,
                   cropVars>>

NextVoice == GenerateVoiceover

SpecVoice == InitVoice /\ [][NextVoice]_vars

\* C30: every word timestamp extracted from the character alignment has a
\* start and an end that are not None, with start <= end.
C30_ExtractedTimesDefined ==
    voice_out.returned =>
        \A k \in 1..Len(voice_out.value) :
            LET ts == voice_out.value[k] IN
            /\ ts.start # NoTime
            /\ ts.end # NoTime
            /\ RLe(ts.start[1], ts.end[1])

=============================================================================
